---- MODULE Spec2Model ----
(***************************************************************************)
(* The connection event loop of rumqtt (src/client/connection.rs) and the  *)
(* MQTT session state machine it drives (client::state::MqttState, whose   *)
(* source is not part of the tree and is modelled from spec.md section     *)
(* 4.1).                                                                   *)
(*                                                                         *)
(* One action is one event the reactor handles in one poll: an inbound     *)
(* packet, one message of the outbound stream, one keep-alive tick.  The   *)
(* resolution of the top-level select/join and the handle_disconnect that  *)
(* follows it are part of the action that ends a task.                     *)
(***************************************************************************)
EXTENDS Integers, Sequences, FiniteSets, TLC

\* Packet ids the allocator rotates through (u16 in the program, 1..65535).
MaxPkid == 2
\* Packet ids the broker uses for its own QoS 1/2 publishes.
MaxInPkid == 1
\* Capacity of the bounded command queue.
MaxCommands == 1
\* Replies the model lets wait in the unbounded network_reply queue.
MaxReplies == 2
\* Replies that may wait when the next ack arrives under SpecSession.
MaxSessionReplies == 1
\* The keep-alive interval, in time units, when one is configured.
KeepAlive == 2

VARIABLES
    mqtt_state,              \* Connection.mqtt_state: the MqttState record
    keep_alive,              \* opts.keep_alive: <<>> is None, <<k>> is Some(k)
    commands_rx,             \* packets waiting in the user command queue
    producers,               \* TRUE while a producer handle of the command queue lives
    network_reply,           \* the loop-internal reply queue of one start()
    last_session_publishes,  \* what is left of the reconnection snapshot stream
    phase,                   \* "idle" (start() not running), "loop", "panicked"
    ret,                     \* what the last start() returned: "none", "Ok", "ConnectError"
    recv_done,               \* the mqtt_recv future has completed
    send_done,               \* the mqtt_send future has completed
    ticks_in,                \* time units until the Interval fires next
    notified,                \* history: notifications queued per inbound QoS 2 id since its last Pubrel
    pings,                   \* history: Pingreqs handed to the sender since the last Pingresp / start
    logged                   \* history: what the receive side last logged in the running start()

vars ==
    <<mqtt_state, keep_alive, commands_rx, producers, network_reply,
      last_session_publishes, phase, ret, recv_done, send_done, ticks_in,
      notified, pings, logged>>

----------------------------------------------------------------------------
\* mqtt3::Packet, reduced to the fields the state machine reads.

Pkids == 1..MaxPkid

InPkids == 1..MaxInPkid

Publish(qos, pid, dup) ==
    [type |-> "Publish", pid |-> pid, qos |-> qos, dup |-> dup]

Ctrl(type, pid) ==
    [type |-> type, pid |-> pid, qos |-> 0, dup |-> FALSE]

NoPacket == Ctrl("None", 0)

Pingreq == Ctrl("Pingreq", 0)

\* What the user-facing handle posts on the command queue.
UserCommands == {Publish(q, 0, FALSE) : q \in 0..2}

\* What the transport can deliver during a session.
InboundPackets ==
    {Publish(0, 0, FALSE)}
    \cup {Publish(q, i, d) : q \in 1..2, i \in InPkids, d \in BOOLEAN}
    \cup {Ctrl(t, i) : t \in {"Puback", "Pubrec", "Pubcomp"}, i \in Pkids}
    \cup {Ctrl("Pubrel", i) : i \in InPkids}
    \cup {Ctrl("Pingresp", 0), Ctrl("Suback", 1), Ctrl("Connack", 0)}

----------------------------------------------------------------------------
\* MqttState (spec.md 3 and 4.1).

MqttStateNew ==
    [connection_status |-> "Disconnected",
     await_pingresp |-> FALSE,
     outgoing_pub |-> <<>>,
     outgoing_rel |-> {},
     incoming_pub |-> {},
     last_pkid |-> 0,
     idle_for |-> 0]

\* idle_for is now - last_control_at, counted up to KeepAlive.
reset_last_control_at(s) == [s EXCEPT !.idle_for = 0]

\* An element of outgoing_pub: the publish by its packet id and QoS.  The dup
\* flag of a stored publish is never read (handle_reconnection sets it on
\* every copy it returns), so it is not kept.
Pending(p) == [pid |-> p.pid, qos |-> p.qos]

PubIds(s) == {s.outgoing_pub[i].pid : i \in DOMAIN s.outgoing_pub}

InFlight(s) == PubIds(s) \cup s.outgoing_rel

RECURSIVE rotate(_, _, _)
rotate(s, id, fuel) ==
    IF fuel = 0 THEN 0
    ELSE LET c == (id % MaxPkid) + 1
         IN IF c \in InFlight(s) THEN rotate(s, c, fuel - 1) ELSE c

\* The allocator without the skip over ids in flight.
next_pkid_no_skip(s) == (s.last_pkid % MaxPkid) + 1

\* The next free id after last_pkid, wrapping MaxPkid -> 1; 0 when none is free.
next_pkid(s) == rotate(s, s.last_pkid, MaxPkid)

\* An ack taking the oldest pending publish when its own id is not pending.
RemovePid_or_oldest(pubs, id) ==
    IF \E i \in DOMAIN pubs : pubs[i].pid = id
    THEN SelectSeq(pubs, LAMBDA p : p.pid # id)
    ELSE IF pubs = <<>> THEN pubs ELSE Tail(pubs)

RemovePid(pubs, id) == SelectSeq(pubs, LAMBDA p : p.pid # id)

handle_outgoing_connect(s) ==
    [s EXCEPT !.connection_status = "Handshake", !.await_pingresp = FALSE]

handle_incoming_connack(s) ==
    reset_last_control_at([s EXCEPT !.connection_status = "Connected"])

handle_disconnect(s) ==
    [s EXCEPT !.connection_status = "Disconnected", !.await_pingresp = FALSE]

\* The snapshot: outgoing_pub in insertion order, every copy with dup set.
\* The state itself is left as it is.
handle_reconnection(s) ==
    [i \in DOMAIN s.outgoing_pub |->
        Publish(s.outgoing_pub[i].qos, s.outgoing_pub[i].pid, TRUE)]

NeedsPkid(p) ==
    \/ p.type = "Publish" /\ p.qos >= 1
    \/ p.type = "Subscribe"

\* [ok, state, packet]: the result of handle_outgoing_mqtt_packet.
handle_outgoing_mqtt_packet(s, p) ==
    IF p.type = "Publish" /\ p.qos >= 1 THEN
        LET out == [p EXCEPT !.pid = next_pkid(s)]
        IN [ok |-> TRUE, packet |-> out,
            state |-> reset_last_control_at(
                [s EXCEPT !.last_pkid = out.pid,
                          !.outgoing_pub = Append(@, Pending(out))])]
    ELSE IF p.type = "Subscribe" THEN
        LET out == [p EXCEPT !.pid = next_pkid(s)]
        IN [ok |-> TRUE, packet |-> out,
            state |-> reset_last_control_at([s EXCEPT !.last_pkid = out.pid])]
    ELSE IF p.type = "Pingreq" THEN
        IF s.connection_status = "Connected" /\ ~s.await_pingresp
        THEN [ok |-> TRUE, packet |-> p,
              state |-> reset_last_control_at([s EXCEPT !.await_pingresp = TRUE])]
        ELSE [ok |-> FALSE, packet |-> NoPacket, state |-> s]
    ELSE [ok |-> TRUE, packet |-> p, state |-> reset_last_control_at(s)]

\* [ok, state, notification, reply]: the result of handle_incoming_mqtt_packet.
handle_incoming_mqtt_packet(s, p) ==
    LET t == reset_last_control_at(s)
        res(st, n, r) == [ok |-> TRUE, state |-> st, notification |-> n, reply |-> r]
    IN
    IF p.type = "Publish" /\ p.qos = 0 THEN res(t, p, NoPacket)
    ELSE IF p.type = "Publish" /\ p.qos = 1 THEN res(t, p, Ctrl("Puback", p.pid))
    ELSE IF p.type = "Publish" THEN
        IF p.pid \in s.incoming_pub
        THEN res(t, NoPacket, Ctrl("Pubrec", p.pid))
        ELSE res([t EXCEPT !.incoming_pub = @ \cup {p.pid}], p, Ctrl("Pubrec", p.pid))
    ELSE IF p.type = "Puback" THEN
        res([t EXCEPT !.outgoing_pub = RemovePid(@, p.pid)], NoPacket, NoPacket)
    ELSE IF p.type = "Pubrec" THEN
        IF p.pid \in PubIds(s)
        THEN res([t EXCEPT !.outgoing_pub = RemovePid(@, p.pid),
                           !.outgoing_rel = @ \cup {p.pid}],
                 NoPacket, Ctrl("Pubrel", p.pid))
        ELSE res(t, NoPacket, Ctrl("Pubrel", p.pid))
    ELSE IF p.type = "Pubrel" THEN
        res([t EXCEPT !.incoming_pub = @ \ {p.pid}], NoPacket, Ctrl("Pubcomp", p.pid))
    ELSE IF p.type = "Pubcomp" THEN
        res([t EXCEPT !.outgoing_rel = @ \ {p.pid}], NoPacket, NoPacket)
    ELSE IF p.type = "Pingresp" THEN
        res([t EXCEPT !.await_pingresp = FALSE], NoPacket, NoPacket)
    ELSE IF p.type \in {"Suback", "Unsuback"} THEN res(t, p, NoPacket)
    ELSE [ok |-> FALSE, state |-> s, notification |-> NoPacket, reply |-> NoPacket]

\* A Puback or Pubcomp for an id that is not pending: logged, not an error.
unknown_ack(s, p) ==
    \/ p.type = "Puback" /\ p.pid \notin PubIds(s)
    \/ p.type = "Pubcomp" /\ p.pid \notin s.outgoing_rel

is_ping_required(s, ka) ==
    /\ s.connection_status = "Connected"
    /\ ka # <<>>
    /\ s.idle_for >= ka[1]
    /\ ~s.await_pingresp

----------------------------------------------------------------------------
\* Connection (src/client/connection.rs).

Init ==
    /\ mqtt_state = MqttStateNew
    /\ keep_alive \in {<<>>, <<KeepAlive>>}
    /\ commands_rx = <<>>
    /\ producers = TRUE
    /\ network_reply = <<>>
    /\ last_session_publishes = <<>>
    /\ phase = "idle"
    /\ ret = "none"
    /\ recv_done = FALSE
    /\ send_done = FALSE
    /\ ticks_in = 0
    /\ notified = [i \in InPkids |-> 0]
    /\ pings = 0
    /\ logged = "none"

\* The top-level select taken for a join: both sides must be done.
LoopResolvedJoin(rd, sd, ka) == rd /\ (sd /\ ka = <<>>)

\* ping_timer_future without a keep-alive is future::ok(()): done at once.
\* With one it is Interval::for_each, which never completes.
ping_timer_done(ka) == ka = <<>>

\* mqtt_recv.select(mqtt_send.join(ping_timer)): the reactor returns when
\* the receive future is done, or when both the send future and the timer are.
LoopResolved(rd, sd, ka) == rd \/ (sd /\ ping_timer_done(ka))

\* start() keeps network_reply_tx until it returns, so network_reply_rx
\* never yields the end of its stream while the reactor runs.
network_reply_ended == FALSE

\* chain(commands_rx) ends when the snapshot is used up and the command
\* queue is empty with every producer dropped; select ends when both of
\* its streams have ended.
outgoing_stream_ended(snap, cmds, prod) ==
    /\ snap = <<>>
    /\ cmds = <<>>
    /\ ~prod
    /\ network_reply_ended

\* start() returning after reactor.run without the handle_disconnect call.
Settle_no_disconnect(s, rd, sd, replies, snap, ticks) ==
    /\ recv_done' = rd
    /\ send_done' = sd
    /\ mqtt_state' = s
    /\ IF LoopResolved(rd, sd, keep_alive)
       THEN /\ phase' = "idle"
            /\ ret' = "Ok"
            /\ network_reply' = <<>>
            /\ last_session_publishes' = <<>>
            /\ ticks_in' = 0
       ELSE /\ phase' = "loop"
            /\ ret' = ret
            /\ network_reply' = replies
            /\ last_session_publishes' = snap
            /\ ticks_in' = ticks

\* What reactor.run leaves behind: the loop goes on, or start() calls
\* handle_disconnect and returns Ok(()), dropping its local streams.
Settle(s, rd, sd, replies, snap, ticks) ==
    /\ recv_done' = rd
    /\ send_done' = sd
    /\ IF LoopResolved(rd, sd, keep_alive)
       THEN /\ mqtt_state' = handle_disconnect(s)
            /\ phase' = "idle"
            /\ ret' = "Ok"
            /\ network_reply' = <<>>
            /\ last_session_publishes' = <<>>
            /\ ticks_in' = 0
       ELSE /\ mqtt_state' = s
            /\ phase' = "loop"
            /\ ret' = ret
            /\ network_reply' = replies
            /\ last_session_publishes' = snap
            /\ ticks_in' = ticks

\* What may come of mqtt_connect's attempt: the transport cannot be built,
\* the CONNECT exchange fails, the stream ends, or one packet arrives.
ConnectOutcomes ==
    {"no_stream", "io_error", "closed", "refused", "not_connack", "accepted"}

\* mqtt_connect putting a fresh MqttState in place when the attempt fails.
mqtt_connect_resets_state(s, outcome) ==
    IF outcome \in {"no_stream", "io_error", "closed", "refused"}
    THEN [result |-> "Err", state |-> MqttStateNew]
    ELSE IF outcome = "accepted"
    THEN [result |-> "Ok",
          state |-> handle_incoming_connack(handle_outgoing_connect(s))]
    ELSE [result |-> "panic", state |-> handle_outgoing_connect(s)]

\* mqtt_connect dropping the error of handle_incoming_connack: a refused
\* CONNACK passes for an accepted one.
mqtt_connect_ignores_refusal(s, outcome) ==
    IF outcome = "no_stream" THEN [result |-> "Err", state |-> s]
    ELSE IF outcome \in {"io_error", "closed"}
    THEN [result |-> "Err", state |-> handle_outgoing_connect(s)]
    ELSE IF outcome = "refused"
    THEN [result |-> "Ok", state |-> handle_outgoing_connect(s)]
    ELSE IF outcome = "accepted"
    THEN [result |-> "Ok",
          state |-> handle_incoming_connack(handle_outgoing_connect(s))]
    ELSE [result |-> "panic", state |-> handle_outgoing_connect(s)]

\* [result, state]: mqtt_connect returns Ok(framed) or Err(ConnectError), or
\* panics in unimplemented!().
mqtt_connect(s, outcome) ==
    IF outcome = "no_stream" THEN [result |-> "Err", state |-> s]
    ELSE IF outcome \in {"io_error", "closed", "refused"}
    THEN [result |-> "Err", state |-> handle_outgoing_connect(s)]
    ELSE IF outcome = "accepted"
    THEN [result |-> "Ok",
          state |-> handle_incoming_connack(handle_outgoing_connect(s))]
    ELSE [result |-> "panic", state |-> handle_outgoing_connect(s)]

\* start() up to the point where the reactor runs the composed future.
Start(outcome) ==
    /\ phase = "idle"
    /\ LET c == mqtt_connect(mqtt_state, outcome)
           s == reset_last_control_at(c.state)
       IN IF c.result = "Ok"
          THEN /\ mqtt_state' = s
               /\ last_session_publishes' = handle_reconnection(s)
               /\ network_reply' = <<>>
               /\ phase' = "loop"
               /\ ret' = "none"
               /\ recv_done' = FALSE
               /\ send_done' = FALSE
               /\ ticks_in' = IF keep_alive = <<>> THEN 0 ELSE keep_alive[1]
               /\ pings' = 0
          ELSE /\ mqtt_state' = c.state
               /\ phase' = IF c.result = "panic" THEN "panicked" ELSE "idle"
               /\ ret' = IF c.result = "panic" THEN ret ELSE "ConnectError"
               /\ recv_done' = FALSE
               /\ send_done' = FALSE
               /\ UNCHANGED <<last_session_publishes, network_reply, ticks_in, pings>>
    /\ logged' = "none"
    /\ UNCHANGED <<keep_alive, commands_rx, producers, notified>>

\* The closure notifying the user of every publish it receives, whatever
\* the state machine returned.
incoming_notify_every(s, p) ==
    LET r == handle_incoming_mqtt_packet(s, p)
    IN [state |-> r.state,
        notification |-> IF p.type = "Publish" THEN p ELSE r.notification,
        reply |-> r.reply,
        failed |-> ~r.ok]

\* The closure of mqtt_network_recv_future: a failed handle_incoming_mqtt_packet
\* is logged (failed) and counts as (None, None).
incoming(s, p) ==
    LET r == handle_incoming_mqtt_packet(s, p)
    IN IF r.ok
       THEN [state |-> r.state, notification |-> r.notification,
             reply |-> r.reply, failed |-> FALSE]
       ELSE [state |-> r.state, notification |-> NoPacket,
             reply |-> NoPacket, failed |-> TRUE]

Bump(n) == IF n >= 2 THEN 2 ELSE n + 1

\* The reply queue taking a packet at its front.
send_reply_front(queue, packet) == <<packet>> \o queue

\* network_reply_tx.send(packet): the unbounded queue takes it at its back.
send_reply(queue, packet) == Append(queue, packet)

\* The closure giving up with an error when try_send fails.
recv_closure_fails_on_notify(r, delivered) ==
    r.notification # NoPacket /\ ~delivered

\* Whether the closure returns an error, which would end for_each: a failed
\* try_send is only logged, and the send on network_reply_tx cannot fail
\* while start() holds network_reply_rx.
recv_closure_fails(r, delivered) == FALSE

\* The log of the receive side is kept while the loop runs.
Log(line) == logged' = IF phase' = "loop" THEN line ELSE "none"

\* One packet from the receiver half; delivered: notifier.try_send succeeds.
RecvPacket(p, delivered) ==
    /\ phase = "loop"
    /\ LET r == incoming(mqtt_state, p)
           replies == IF r.reply = NoPacket
                      THEN network_reply
                      ELSE send_reply(network_reply, r.reply)
       IN /\ Len(replies) <= MaxReplies
          /\ r.notification = NoPacket => delivered
          /\ notified' =
                IF p.type = "Pubrel" THEN [notified EXCEPT ![p.pid] = 0]
                ELSE IF r.notification.type = "Publish" /\ p.qos = 2 /\ delivered
                THEN [notified EXCEPT ![p.pid] = Bump(@)]
                ELSE notified
          /\ pings' = IF p.type = "Pingresp" THEN 0 ELSE pings
          /\ Settle(r.state, recv_closure_fails(r, delivered), send_done, replies,
                    last_session_publishes, ticks_in)
          /\ Log(IF r.failed THEN "failed"
                 ELSE IF unknown_ack(mqtt_state, p) THEN "unknown_ack"
                 ELSE logged)
    /\ UNCHANGED <<keep_alive, commands_rx, producers>>

\* The receiver half ends (EOF) or fails (decode or transport error).
RecvEnd ==
    /\ phase = "loop"
    /\ Settle(mqtt_state, TRUE, send_done, network_reply, last_session_publishes, ticks_in)
    /\ Log(logged)
    /\ UNCHANGED <<keep_alive, commands_rx, producers, notified, pings>>

\* The chain built the other way round: the command queue first.
chain_commands_first(snap, cmds) ==
    IF cmds # <<>> THEN [src |-> "commands", msg |-> Head(cmds)]
    ELSE IF snap # <<>> THEN [src |-> "snapshot", msg |-> Head(snap)]
    ELSE [src |-> "none", msg |-> NoPacket]

\* last_session_publishes.chain(commands_rx): the snapshot first, the
\* command queue once the snapshot is used up.
chain(snap, cmds) ==
    IF snap # <<>> THEN [src |-> "snapshot", msg |-> Head(snap)]
    ELSE IF cmds # <<>> THEN [src |-> "commands", msg |-> Head(cmds)]
    ELSE [src |-> "none", msg |-> NoPacket]

\* The pipeline forwarding the message as it came when the state machine
\* refuses it, instead of ending with the error.
outgoing_unchecked(s, msg, sendok) ==
    LET r == handle_outgoing_mqtt_packet(s, msg)
    IN IF sendok
       THEN [state |-> r.state, packet |-> IF r.ok THEN r.packet ELSE msg,
             done |-> FALSE]
       ELSE [state |-> r.state, packet |-> NoPacket, done |-> TRUE]

\* and_then(handle_outgoing_mqtt_packet).forward(sender) on one message:
\* the packet that reaches the sender, the state, and whether mqtt_send ends.
outgoing(s, msg, sendok) ==
    LET r == handle_outgoing_mqtt_packet(s, msg)
    IN IF r.ok /\ sendok
       THEN [state |-> r.state, packet |-> r.packet, done |-> FALSE]
       ELSE [state |-> r.state, packet |-> NoPacket, done |-> TRUE]

\* One message of the outbound stream: from the reply queue or from the chain.
OutboundStep(from_reply, sendok) ==
    /\ phase = "loop"
    /\ ~send_done
    /\ LET c == chain(last_session_publishes, commands_rx)
           src == IF from_reply THEN "reply" ELSE c.src
           msg == IF from_reply THEN Head(network_reply) ELSE c.msg
           replies == IF src = "reply" THEN Tail(network_reply) ELSE network_reply
           snap == IF src = "snapshot"
                   THEN Tail(last_session_publishes)
                   ELSE last_session_publishes
           cmds == IF src = "commands" THEN Tail(commands_rx) ELSE commands_rx
       IN /\ IF from_reply THEN network_reply # <<>> ELSE c.src # "none"
          /\ NeedsPkid(msg) => next_pkid(mqtt_state) # 0
          /\ LET out == outgoing(mqtt_state, msg, sendok)
             IN /\ commands_rx' = cmds
                /\ pings' = IF out.packet.type = "Pingreq" THEN Bump(pings) ELSE pings
                /\ Settle(out.state, FALSE,
                          out.done \/ outgoing_stream_ended(snap, cmds, producers),
                          replies, snap, ticks_in)
    /\ Log(logged)
    /\ UNCHANGED <<keep_alive, producers, notified>>

\* The Interval fires: the closure of ping_timer_future.
Tick ==
    /\ phase = "loop"
    /\ keep_alive # <<>>
    /\ ticks_in = 0
    /\ LET replies == IF is_ping_required(mqtt_state, keep_alive)
                      THEN send_reply(network_reply, Pingreq)
                      ELSE network_reply
       IN /\ Len(replies) <= MaxReplies
          /\ Settle(mqtt_state, FALSE, send_done, replies, last_session_publishes,
                    keep_alive[1])
    /\ Log(logged)
    /\ UNCHANGED <<keep_alive, commands_rx, producers, notified, pings>>

\* One time unit goes by without a packet.
TimePasses ==
    /\ phase = "loop"
    /\ keep_alive # <<>>
    /\ ticks_in > 0
    /\ ticks_in' = ticks_in - 1
    /\ mqtt_state' =
          [mqtt_state EXCEPT !.idle_for = IF @ >= keep_alive[1] THEN @ ELSE @ + 1]
    /\ UNCHANGED <<keep_alive, commands_rx, producers, network_reply,
                   last_session_publishes, phase, ret, recv_done, send_done,
                   notified, pings, logged>>

\* A caller posts a command; the bounded queue refuses it when full.
UserSend(p) ==
    /\ phase # "panicked"
    /\ producers
    /\ Len(commands_rx) < MaxCommands
    /\ commands_rx' = Append(commands_rx, p)
    /\ UNCHANGED <<mqtt_state, keep_alive, producers, network_reply,
                   last_session_publishes, phase, ret, recv_done, send_done,
                   ticks_in, notified, pings, logged>>

\* The last producer handle of the command queue is dropped.
DropProducers ==
    /\ phase # "panicked"
    /\ producers
    /\ producers' = FALSE
    /\ IF phase = "loop"
       THEN Settle(mqtt_state, FALSE,
                   send_done \/ outgoing_stream_ended(last_session_publishes,
                                                      commands_rx, FALSE),
                   network_reply, last_session_publishes, ticks_in)
       ELSE UNCHANGED <<mqtt_state, network_reply, last_session_publishes, phase,
                        ret, recv_done, send_done, ticks_in>>
    /\ Log(logged)
    /\ UNCHANGED <<keep_alive, commands_rx, notified, pings>>

\* The loop under a few loads, each small enough to explore in full.  They
\* share every action and differ in what the user posts and the broker sends.

\* Spec: the life of the loop and its keep-alive.  QoS 0 publishes both ways,
\* ping responses, ticks, tasks and producers that end.
LoopCommands == {p \in UserCommands : p.qos = 0}

LoopInbound == {p \in InboundPackets : p.type = "Pingresp" \/ (p.type = "Publish" /\ p.qos = 0)}

Next ==
    \/ \E o \in ConnectOutcomes : Start(o)
    \/ \E p \in LoopInbound, d \in BOOLEAN : RecvPacket(p, d)
    \/ RecvEnd
    \/ \E r \in BOOLEAN, ok \in BOOLEAN : OutboundStep(r, ok)
    \/ Tick
    \/ TimePasses
    \/ \E p \in LoopCommands : UserSend(p)
    \/ DropProducers

Spec == Init /\ [][Next]_vars

\* SpecSession: QoS 1 and 2 publishes of the user and the broker's acks,
\* across disconnects and reconnects; no keep-alive.  The next ack arrives
\* while fewer than MaxSessionReplies replies wait.
SessionCommands == {p \in UserCommands : p.qos >= 1}

SessionInbound == {p \in InboundPackets : p.type \in {"Puback", "Pubrec", "Pubcomp"}}

InitSession == Init /\ keep_alive = <<>>

NextSession ==
    \/ \E o \in ConnectOutcomes : Start(o)
    \/ \E p \in SessionInbound :
          Len(network_reply) < MaxSessionReplies /\ RecvPacket(p, TRUE)
    \/ RecvEnd
    \/ \E r \in BOOLEAN, ok \in BOOLEAN : OutboundStep(r, ok)
    \/ \E p \in SessionCommands : UserSend(p)

SpecSession == InitSession /\ [][NextSession]_vars

\* SpecAcks: the same traffic with the broker's acks arriving one by one,
\* each after the reply to the one before it has left the reply queue.
NextAcks ==
    \/ \E o \in ConnectOutcomes : Start(o)
    \/ \E p \in SessionInbound : network_reply = <<>> /\ RecvPacket(p, TRUE)
    \/ RecvEnd
    \/ \E r \in BOOLEAN, ok \in BOOLEAN : OutboundStep(r, ok)
    \/ \E p \in SessionCommands : UserSend(p)

SpecAcks == InitSession /\ [][NextAcks]_vars

\* SpecDelivery: the broker's publishes, releases and other packets, acks
\* for ids that are not in flight among them; no keep-alive.
DeliveryInbound == {p \in InboundPackets : p.type # "Pingresp"}

InitDelivery == Init /\ keep_alive = <<>>

NextDelivery ==
    \/ \E o \in ConnectOutcomes : Start(o)
    \/ \E p \in DeliveryInbound, d \in BOOLEAN : RecvPacket(p, d)
    \/ RecvEnd
    \/ \E r \in BOOLEAN, ok \in BOOLEAN : OutboundStep(r, ok)
    \/ \E p \in LoopCommands : UserSend(p)

SpecDelivery == InitDelivery /\ [][NextDelivery]_vars

----------------------------------------------------------------------------
\* Properties.

HasPending(s, id, qos) ==
    \E i \in DOMAIN s.outgoing_pub :
        s.outgoing_pub[i].pid = id /\ s.outgoing_pub[i].qos = qos

\* The step handles the inbound packet p.
RecvStep(p) == \E d \in BOOLEAN : RecvPacket(p, d)

\* C1: once the connect phase has passed, no packet leaves the command queue
\* for outgoing processing while a publish of the reconnection snapshot is
\* still to be handed over; the snapshot is outgoing_pub in insertion order,
\* every copy with dup set, it is consumed from its head, and the packet
\* that outgoing processing returns for each copy still carries dup.
C1_SnapshotBeforeCommands ==
    [][/\ (phase = "loop" /\ Len(commands_rx') < Len(commands_rx))
            => last_session_publishes = <<>>
       /\ (phase = "idle" /\ phase' = "loop")
            => /\ Len(last_session_publishes') = Len(mqtt_state'.outgoing_pub)
               /\ \A i \in DOMAIN last_session_publishes' :
                    /\ last_session_publishes'[i].type = "Publish"
                    /\ last_session_publishes'[i].dup
                    /\ last_session_publishes'[i].pid = mqtt_state'.outgoing_pub[i].pid
                    /\ last_session_publishes'[i].qos = mqtt_state'.outgoing_pub[i].qos
       /\ (phase = "loop" /\ phase' = "loop"
           /\ last_session_publishes' # last_session_publishes)
            => /\ last_session_publishes' = Tail(last_session_publishes)
               /\ LET r == handle_outgoing_mqtt_packet(
                               mqtt_state, Head(last_session_publishes))
                  IN /\ r.ok
                     /\ r.packet.dup
                     /\ r.packet.qos = Head(last_session_publishes).qos
                     /\ mqtt_state' = r.state
      ]_vars

\* A command waits while the second publish of a two-publish snapshot is
\* still to be resent and the first has been.
C1_Witness ==
    /\ phase = "loop"
    /\ Len(last_session_publishes) = 1
    /\ Len(mqtt_state.outgoing_pub) = 2
    /\ commands_rx # <<>>

\* C2: in every reachable state the elements of outgoing_pub have pairwise
\* distinct packet ids and no packet id is in both outgoing_pub and
\* outgoing_rel.
C2_PacketIdsUnique ==
    /\ \A i, j \in DOMAIN mqtt_state.outgoing_pub :
          i # j => mqtt_state.outgoing_pub[i].pid # mqtt_state.outgoing_pub[j].pid
    /\ PubIds(mqtt_state) \cap mqtt_state.outgoing_rel = {}

\* After a reconnect, a resent copy stands in outgoing_pub behind a publish
\* of the earlier session, under an id that was free again.
C2_Witness ==
    /\ phase = "loop"
    /\ Len(last_session_publishes) = 1
    /\ Len(mqtt_state.outgoing_pub) = 2
    /\ mqtt_state.outgoing_pub[2].pid < mqtt_state.outgoing_pub[1].pid

\* C3: the id X of a pending QoS 1 publish stays in outgoing_pub through every
\* step but the handling of Puback(X), and the handling of Puback(X) removes it.
C3_Qos1HeldUntilPuback ==
    [][\A X \in Pkids :
          HasPending(mqtt_state, X, 1) =>
             IF RecvStep(Ctrl("Puback", X))
             THEN X \notin PubIds(mqtt_state')
             ELSE HasPending(mqtt_state', X, 1)
      ]_vars

\* C4: for a QoS 2 publish with id X, a Pubrel(X) is put on the reply queue
\* exactly by the steps that handle a Pubrec(X), which move X from
\* outgoing_pub to outgoing_rel; and X leaves outgoing_pub and outgoing_rel
\* for good exactly by the steps that handle a Pubcomp(X).
C4_Qos2Handshake ==
    [][\A X \in Pkids :
          /\ network_reply' = Append(network_reply, Ctrl("Pubrel", X))
                <=> RecvStep(Ctrl("Pubrec", X))
          /\ (RecvStep(Ctrl("Pubrec", X)) /\ HasPending(mqtt_state, X, 2))
                => /\ X \notin PubIds(mqtt_state')
                   /\ X \in mqtt_state'.outgoing_rel
          /\ ((HasPending(mqtt_state, X, 2) \/ X \in mqtt_state.outgoing_rel)
              /\ X \notin InFlight(mqtt_state'))
                => RecvStep(Ctrl("Pubcomp", X))
          /\ (RecvStep(Ctrl("Pubcomp", X)) /\ X \in mqtt_state.outgoing_rel)
                => X \notin InFlight(mqtt_state')
      ]_vars

\* C5: of an inbound QoS 2 publish with id X at most one notification is
\* queued until its Pubrel(X), however often it is delivered, and every
\* delivery puts a Pubrec(X) on the reply queue.
C5_Qos2NotifiedOnce ==
    [][/\ \A X \in InPkids : notified'[X] <= 1
       /\ \A X \in InPkids, d \in BOOLEAN :
             RecvStep(Publish(2, X, d))
                => network_reply' = Append(network_reply, Ctrl("Pubrec", X))
      ]_vars

\* The publish with id 1 was delivered twice: two Pubrec(1) wait, one
\* notification was queued.
C5_Witness ==
    /\ notified[1] = 1
    /\ 1 \in mqtt_state.incoming_pub
    /\ network_reply = <<Ctrl("Pubrec", 1), Ctrl("Pubrec", 1)>>

\* C6: a tick of the keep-alive timer that finds await_pingresp set ends the
\* loop and leaves the state machine Disconnected.
C6_PingTimeoutIsFatal ==
    [][(Tick /\ mqtt_state.await_pingresp)
          => /\ phase' = "idle"
             /\ mqtt_state'.connection_status = "Disconnected"
      ]_vars

\* C7: a tick that finds the connection Connected and idle for the keep-alive
\* interval or longer puts a Pingreq on the way to the sender or ends the
\* loop with a ping timeout.
C7_IdlePingsOrTimesOut ==
    [][(/\ Tick
        /\ mqtt_state.connection_status = "Connected"
        /\ mqtt_state.idle_for >= keep_alive[1])
          => \/ network_reply' = Append(network_reply, Pingreq)
             \/ phase' = "idle"
      ]_vars

\* C8: at most one Pingreq reaches the sender between connection start and
\* the first Pingresp and between two Pingresps, and one reaches it only
\* when the state is Connected with await_pingresp clear.
C8_OnePingreqInFlight ==
    [][/\ pings' <= 1
       /\ pings' > pings
            => /\ mqtt_state.connection_status = "Connected"
               /\ ~mqtt_state.await_pingresp
      ]_vars

\* A tick has gone by with the Pingreq unanswered and the connection idle,
\* and no second Pingreq was queued or sent.
C8_Witness ==
    /\ phase = "loop"
    /\ ~send_done
    /\ pings = 1
    /\ mqtt_state.await_pingresp
    /\ mqtt_state.idle_for >= KeepAlive
    /\ ticks_in = KeepAlive
    /\ network_reply = <<>>

C10_DroppedProducersEndLoop ==
    (/\ ~producers
     /\ commands_rx = <<>>
     /\ last_session_publishes = <<>>
     /\ network_reply = <<>>)
        => phase # "loop"

\* C11: whenever start() has returned, with success or with ConnectError,
\* the state machine is Disconnected and await_pingresp is clear.
C11_DisconnectedAfterReturn ==
    (phase = "idle" /\ ret # "none")
        => /\ mqtt_state.connection_status = "Disconnected"
           /\ ~mqtt_state.await_pingresp

\* C12: a connect phase whose one inbound packet is not a CONNACK ends with
\* start() returning ConnectError: no panic, no event loop.
C12_NonConnackIsConnectError ==
    [][Start("not_connack") => (phase' = "idle" /\ ret' = "ConnectError")]_vars

\* C13: an inbound packet on which handle_incoming_mqtt_packet fails ends
\* the connection: the loop exits, the state machine is Disconnected, and
\* outgoing_pub and outgoing_rel are as they were.
C13_ProtocolErrorEndsConnection ==
    [][\A p \in InboundPackets :
          (~handle_incoming_mqtt_packet(mqtt_state, p).ok /\ RecvStep(p))
             => /\ phase' = "idle"
                /\ mqtt_state'.connection_status = "Disconnected"
                /\ mqtt_state'.outgoing_pub = mqtt_state.outgoing_pub
                /\ mqtt_state'.outgoing_rel = mqtt_state.outgoing_rel
      ]_vars

\* C14: start() returns ConnectError exactly from a connect phase that
\* fails on the transport, on a closed connection or on a refused CONNACK;
\* an accepted connect enters the loop, and every end of the loop makes
\* start() return success.
C14_ReturnValue ==
    [][/\ \A o \in {"no_stream", "io_error", "closed", "refused"} :
             Start(o) => (phase' = "idle" /\ ret' = "ConnectError")
       /\ Start("accepted") => (phase' = "loop" /\ ret' = "none")
       /\ (phase = "loop" /\ phase' # "loop")
             => (phase' = "idle" /\ ret' = "Ok")
       /\ (ret' = "ConnectError" /\ ret # "ConnectError")
             => \E o \in {"no_stream", "io_error", "closed", "refused"} : Start(o)
       /\ (ret' = "Ok" /\ ret # "Ok") => phase = "loop"
      ]_vars

\* The loop ended on its send side, by a failed send or a refused packet,
\* and start() returned success.
C14_Witness ==
    /\ phase = "idle"
    /\ ret = "Ok"
    /\ send_done
    /\ ~recv_done
    /\ mqtt_state.connection_status = "Disconnected"

\* C15: handling a Puback or Pubcomp whose id is not pending leaves the
\* loop running, the connection Connected, and outgoing_pub and
\* outgoing_rel as they were: a step of the loop either leaves all that in
\* place or is not the handling of such an ack.
C15_UnknownAckTolerated ==
    [][phase = "loop"
          => \/ /\ phase' = "loop"
                /\ mqtt_state'.connection_status = "Connected"
                /\ mqtt_state'.outgoing_pub = mqtt_state.outgoing_pub
                /\ mqtt_state'.outgoing_rel = mqtt_state.outgoing_rel
             \/ \A X \in Pkids, ack \in {"Puback", "Pubcomp"} :
                   ~(unknown_ack(mqtt_state, Ctrl(ack, X)) /\ RecvStep(Ctrl(ack, X)))
      ]_vars

\* An ack for an id that was not pending has been handled while a publish
\* and a release were pending, and both still are.
C15_Witness ==
    /\ phase = "loop"
    /\ logged = "unknown_ack"
    /\ mqtt_state.connection_status = "Connected"
    /\ mqtt_state.outgoing_pub # <<>>
    /\ mqtt_state.outgoing_rel # {}

\* C16: over a disconnect and the reconnect after it outgoing_pub and
\* outgoing_rel stay as they were: the end of the connection changes
\* neither, nor does taking the snapshot when start() connects again, nor
\* does handing a publish of the snapshot to outgoing processing.
C16_ReconnectPreservesBuffers ==
    [][/\ RecvEnd
            => /\ mqtt_state'.outgoing_pub = mqtt_state.outgoing_pub
               /\ mqtt_state'.outgoing_rel = mqtt_state.outgoing_rel
               /\ mqtt_state'.incoming_pub = mqtt_state.incoming_pub
               /\ mqtt_state'.last_pkid = mqtt_state.last_pkid
       /\ (phase = "idle" /\ phase' = "loop")
            => /\ mqtt_state'.outgoing_pub = mqtt_state.outgoing_pub
               /\ mqtt_state'.outgoing_rel = mqtt_state.outgoing_rel
       /\ (phase = "loop" /\ phase' = "loop"
           /\ last_session_publishes' # last_session_publishes)
            => /\ mqtt_state'.outgoing_pub = mqtt_state.outgoing_pub
               /\ mqtt_state'.outgoing_rel = mqtt_state.outgoing_rel
      ]_vars

\* C17: once the inbound half has delivered its end of stream, the loop
\* has exited, start() has returned, and the state machine is Disconnected.
C17_EofEndsLoop ==
    recv_done
        => /\ phase = "idle"
           /\ ret = "Ok"
           /\ mqtt_state.connection_status = "Disconnected"

\* With a keep-alive timer and the send side still alive, the end of the
\* inbound stream alone has ended the loop.
C17_Witness ==
    /\ recv_done
    /\ ~send_done
    /\ keep_alive # <<>>
    /\ phase = "idle"

\* C18: the reply queue is first in, first out: while the loop runs, a step
\* leaves it alone, or puts the reply to the inbound packet it handles (or a
\* Pingreq) at its back, or takes the packet at its front, which goes to
\* the sender as it is.
C18_RepliesKeepOrder ==
    [][(phase = "loop" /\ phase' = "loop")
          => \/ network_reply' = network_reply
             \/ \E p \in InboundPackets :
                   /\ RecvStep(p)
                   /\ incoming(mqtt_state, p).reply # NoPacket
                   /\ network_reply' =
                         Append(network_reply, incoming(mqtt_state, p).reply)
             \/ network_reply' = Append(network_reply, Pingreq)
             \/ /\ network_reply # <<>>
                /\ network_reply' = Tail(network_reply)
                /\ \/ outgoing(mqtt_state, Head(network_reply), TRUE).packet
                         = Head(network_reply)
                   \/ Head(network_reply) = Pingreq
      ]_vars

\* The reply to a QoS 2 publish and the reply to the release that came after
\* it wait in that order, with a user command waiting beside them.
C18_Witness ==
    /\ phase = "loop"
    /\ network_reply = <<Ctrl("Pubrec", 1), Ctrl("Pubcomp", 1)>>
    /\ mqtt_state.incoming_pub = {}
    /\ commands_rx # <<>>

\* C19: a step in which the notification cannot be placed on the
\* notification queue still leaves the receive side running, with the state
\* machine's result in place and the reply to the same packet at the back
\* of the reply queue.
C19_NotifyFailureGoesOn ==
    [][\A p \in InboundPackets :
          RecvPacket(p, FALSE)
             => LET r == incoming(mqtt_state, p)
                IN /\ phase' = "loop"
                   /\ ~recv_done'
                   /\ mqtt_state' = r.state
                   /\ network_reply' =
                         IF r.reply = NoPacket THEN network_reply
                         ELSE Append(network_reply, r.reply)
      ]_vars

\* The notification of the QoS 2 publish with id 1 was lost, its Pubrec is
\* queued, and the QoS 1 publish that came after it has its Puback queued.
C19_Witness ==
    /\ phase = "loop"
    /\ 1 \in mqtt_state.incoming_pub
    /\ notified[1] = 0
    /\ network_reply = <<Ctrl("Pubrec", 1), Ctrl("Puback", 1)>>

\* C20: a start() that ends in ConnectError leaves outgoing_pub and
\* outgoing_rel as they were, and a start() that connects takes every
\* publish of outgoing_pub, in order, into its snapshot.
C20_FailedConnectKeepsBuffers ==
    [][\A o \in ConnectOutcomes :
          Start(o)
             => /\ phase' = "idle"
                    => /\ ret' = "ConnectError"
                       /\ mqtt_state'.outgoing_pub = mqtt_state.outgoing_pub
                       /\ mqtt_state'.outgoing_rel = mqtt_state.outgoing_rel
                /\ phase' = "loop"
                    => /\ Len(last_session_publishes') = Len(mqtt_state.outgoing_pub)
                       /\ \A i \in DOMAIN mqtt_state.outgoing_pub :
                             /\ last_session_publishes'[i].pid = mqtt_state.outgoing_pub[i].pid
                             /\ last_session_publishes'[i].qos = mqtt_state.outgoing_pub[i].qos
      ]_vars

\* A connect has failed with a publish and a release pending, and both
\* still are.
C20_Witness ==
    /\ phase = "idle"
    /\ ret = "ConnectError"
    /\ mqtt_state.connection_status = "Handshake"
    /\ mqtt_state.outgoing_pub # <<>>
    /\ mqtt_state.outgoing_rel # {}

====
